---- MODULE Spec2Model ----
(***************************************************************************)
(* Pixel permutation pipeline: pixel extraction (proc.py), luminance       *)
(* assignment (assign.py) seeded through numpy's process-wide generator,   *)
(* composition of the final raster and of the animation's frames, the      *)
(* animation loop and its encoder (render.py), and the mapping file        *)
(* (fileio.py).                                                            *)
(*                                                                         *)
(* Python indices are 0-based: a list element with Python index i is the   *)
(* element i+1 of the TLA+ sequence that models the list.                  *)
(***************************************************************************)
EXTENDS Integers, Sequences, FiniteSets, TLC

VARIABLES
    pc,                \* position of the sequential pipeline (run_mvp.main)
    source_small,      \* decoded source raster: rows of [r, g, b] colors
    target_small,      \* decoded target raster
    seed,              \* seed argument of create_assignment
    rng,               \* state of numpy's process-wide generator
    source_pixels,     \* extract_pixels(source_small)
    target_pixels,     \* extract_pixels(target_small)
    source_luminance,  \* perturbed source luminances of the last call
    target_luminance,  \* perturbed target luminances of the last call
    mapping,           \* mapping returned by the last create_assignment call
    first_mapping,     \* mapping returned by the first call
    small_img,         \* working-resolution raster of the last composition
    disturbed,         \* another caller used the generator since the last call
    worker,            \* per thread: the locals of its create_assignment call
    scale,             \* scale argument of the renderer
    frame_t,           \* time of the last composed frame, <<numerator, denominator>>
    frame,             \* the last frame _create_frame_vectorized returned
    final_image,       \* the raster create_final_image returned, <<>> before
    fps,               \* fps argument of create_animation
    duration,          \* duration argument, in units of 1/DurationUnit seconds
    output_format,     \* output_format argument of create_animation
    frames_dir,        \* frames_dir argument: "none", "present" or "absent"
    num_frames,        \* create_animation's local num_frames
    frame_idx,         \* create_animation's loop variable
    frames,            \* create_animation's list of frames
    times,             \* the time at which each element of frames was composed
    frame_files,       \* names of the files in frames_dir, in order of writing
    encoded,           \* what imageio.mimsave was called with, <<>> before
    error,             \* the exception that ended create_animation, "" if none
    mapping_file,      \* characters of the file save_mapping wrote
    loaded,            \* value load_mapping returned, <<>> before
    indices,           \* create_kdtree_assignment's nearest target indices
    processing_status, \* app.py's registry processing_status
    results,           \* app.py's registry results
    uploads,           \* the files of UPLOAD_FOLDER: name -> content
    task,              \* per task id: the arguments and position of its worker
    cleaned,           \* task ids whose cleanup request has completed
    response           \* the last answer of /status or /result

\* the state of the sequential pipeline, apart from the generator
pipeline == <<pc, source_small, target_small, seed, source_pixels,
              target_pixels, source_luminance, target_luminance, mapping,
              first_mapping, small_img>>

\* the arguments and the result of one frame composition
render == <<scale, frame_t, frame, final_image>>

\* the arguments and locals of create_animation, and its effects
animation == <<fps, duration, output_format, frames_dir, num_frames,
               frame_idx, frames, times, frame_files, encoded, error>>

\* the mapping file
storage == <<mapping_file, loaded>>

\* the locals of create_kdtree_assignment
kdtree == <<indices>>

\* the state of the web layer
web == <<processing_status, results, uploads, task, cleaned, response>>

vars == <<pipeline, rng, disturbed, worker, render, animation, storage,
          kdtree, web>>

\* no frame has been composed
IdleRender ==
    /\ scale = 1
    /\ frame_t = <<1, 1>>
    /\ frame = <<>>
    /\ final_image = <<>>

\* create_animation has not been called
IdleAnimation ==
    /\ fps = 1
    /\ duration = 0
    /\ output_format = "mp4"
    /\ frames_dir = "none"
    /\ num_frames = 0
    /\ frame_idx = 0
    /\ frames = <<>>
    /\ times = <<>>
    /\ frame_files = <<>>
    /\ encoded = <<>>
    /\ error = ""

\* no mapping file has been written
IdleStorage ==
    /\ mapping_file = <<>>
    /\ loaded = <<>>

\* create_kdtree_assignment has not been called
IdleKdtree == indices = <<>>

\* the web server has received no request
IdleWeb ==
    /\ processing_status = <<>>
    /\ results = <<>>
    /\ uploads = <<>>
    /\ task = <<>>
    /\ cleaned = {}
    /\ response = <<>>

----------------------------------------------------------------------------
(* Bounds of the model *)

\* largest raster: height * width <= MaxPixels
MaxPixels == 4
\* number of noise quanta in noise_scale (1e-6): one quantum is 1e-6/NoiseRes
NoiseRes == 2
\* number of states of the modelled generator
RngMod == 8
\* pixels of a raster handed to a worker thread
WorkerPixels == 2
\* largest scale argument of the renderer
MaxScale == 2
\* largest num_frames of a composed frame
MaxFrames == 3
\* largest fps argument of create_animation
MaxFps == 2
\* a duration is a whole number of 1/DurationUnit seconds (MIN_DURATION)
DurationUnit == 10
\* largest number of entries of a mapping written to a file
MaxEntries == 2

\* config.py
MIN_SEED == 0
DEFAULT_SEED == 42

Black == <<0, 0, 0>>
White == <<255, 255, 255>>
Red == <<255, 0, 0>>
Palette == {Black, White}

\* <<height, width>> of the rasters: every shape of at most MaxPixels pixels
Shapes == {s \in (1..MaxPixels) \X (1..MaxPixels) : s[1] * s[2] <= MaxPixels}

\* the shapes of the pipeline's rasters: single rows and squares
PipelineShapes == {s \in Shapes : s[1] = 1 \/ s[1] = s[2]}

\* rasters of height s[1] and width s[2] with colors of the set colors
RastersOf(s, colors) == [1..s[1] -> [1..s[2] -> colors]]

Rasters == UNION {RastersOf(s, Palette) : s \in PipelineShapes}

\* the rasters of the concurrent worker threads: one row
WorkerRasters == RastersOf(<<1, WorkerPixels>>, Palette)

\* the rasters extract_pixels is applied to on its own
ExtractRasters == UNION {RastersOf(s, Palette \cup {Red}) : s \in Shapes}

Seeds == {MIN_SEED, DEFAULT_SEED}

Min(a, b) == IF a <= b THEN a ELSE b

----------------------------------------------------------------------------
(* proc.py *)

\* mutant: the position is stored as [y, x]
PixelAt_row_first(image, width, y, x) ==
    [id |-> y * width + x,
     color |-> image[y + 1][x + 1],
     src_pos |-> <<y, x>>]

\* body of the inner loop of extract_pixels for row y, column x
PixelAt(image, width, y, x) ==
    [id |-> y * width + x,
     color |-> image[y + 1][x + 1],
     src_pos |-> <<x, y>>]

\* for y in range(height): for x in range(width): pixels.append(...)
RECURSIVE ExtractLoop(_, _, _, _, _, _)
ExtractLoop(image, height, width, y, x, pixels) ==
    IF y >= height THEN pixels
    ELSE IF x >= width THEN ExtractLoop(image, height, width, y + 1, 0, pixels)
    ELSE ExtractLoop(image, height, width, y, x + 1,
                     Append(pixels, PixelAt(image, width, y, x)))

extract_pixels(image) ==
    ExtractLoop(image, Len(image), Len(image[1]), 0, 0, <<>>)

\* 0.299 r + 0.587 g + 0.114 b, in units of 1/1000
calculate_luminance(color) ==
    299 * color[1] + 587 * color[2] + 114 * color[3]

----------------------------------------------------------------------------
(* numpy's process-wide generator: np.random.seed puts it in a state that  *)
(* depends on the seed only, every draw returns a value that depends on    *)
(* the state only and advances the state.                                  *)

RngSeed(s) == s % RngMod

RngNext(r) == (5 * r + 1) % RngMod

\* noise_scale = 1e-6, in noise quanta
noise_scale == NoiseRes

\* np.random.uniform(-noise_scale, noise_scale) drawn in state r: a value of
\* the half-open interval [-noise_scale, noise_scale), in noise quanta; two
\* states of the generator may give the same value
uniform(r) == ((r \div 2) % (2 * noise_scale)) - noise_scale

\* mutant: the noise is added in units of the luminance (noise_scale = 1e-3)
Perturbed_unscaled(lum, noise) == lum + noise

\* lum + noise, in noise quanta (lum is in 1/1000, a quantum is 1e-6/NoiseRes)
Perturbed(lum, noise) == lum * 1000 * NoiseRes + noise

----------------------------------------------------------------------------
(* assign.py: create_assignment *)

\* [lum + np.random.uniform(-noise_scale, noise_scale) for lum in lums],
\* drawing from the process-wide generator in state r; the state it leaves
\* the generator in is returned with the list
RECURSIVE PerturbLoop(_, _, _)
PerturbLoop(lums, r, acc) ==
    IF lums = <<>> THEN [lum |-> acc, rng |-> r]
    ELSE PerturbLoop(Tail(lums), RngNext(r),
                     Append(acc, Perturbed(Head(lums), uniform(r))))

Luminances(pixels) ==
    [i \in 1..Len(pixels) |-> calculate_luminance(pixels[i].color)]

\* np.argsort(keys): the 0-based indices of keys in ascending order of key.
\* Equal keys keep their index order, as numpy's default sort does on the
\* short arrays of this model (insertion sort below 17 elements).
RankOf(keys, i) ==
    Cardinality({j \in 1..Len(keys) :
                    keys[j] < keys[i] \/ (keys[j] = keys[i] /\ j < i)})

\* mutant: the index of the first element that has the k-th smallest key
\* ([keys.index(v) for v in sorted(keys)]), which repeats an index on a tie
argsort_first_equal(keys) ==
    [k \in 1..Len(keys) |->
        LET v == keys[CHOOSE i \in 1..Len(keys) : RankOf(keys, i) = k - 1]
        IN  (CHOOSE i \in 1..Len(keys) :
                /\ keys[i] = v
                /\ \A j \in 1..(i - 1) : keys[j] # v) - 1]

\* mutant: descending order (np.argsort of the negated keys)
argsort_descending(keys) ==
    [k \in 1..Len(keys) |->
        (CHOOSE i \in 1..Len(keys) : RankOf(keys, i) = Len(keys) - k) - 1]

argsort(keys) ==
    [k \in 1..Len(keys) |->
        (CHOOSE i \in 1..Len(keys) : RankOf(keys, i) = k - 1) - 1]

\* mutant: the color is read from the target pixel
MappingEntry_target_color(source_pixel, target_pixel) ==
    [id |-> source_pixel.id,
     color |-> target_pixel.color,
     src_pos |-> source_pixel.src_pos,
     dst_pos |-> target_pixel.src_pos]

\* mutant: the destination is read from the source pixel
MappingEntry_source_dst(source_pixel, target_pixel) ==
    [id |-> source_pixel.id,
     color |-> source_pixel.color,
     src_pos |-> source_pixel.src_pos,
     dst_pos |-> source_pixel.src_pos]

\* the dictionary appended for one (src_idx, tgt_idx) pair
MappingEntry(source_pixel, target_pixel) ==
    [id |-> source_pixel.id,
     color |-> source_pixel.color,
     src_pos |-> source_pixel.src_pos,
     dst_pos |-> target_pixel.src_pos]

\* zip stops with the shorter of its two arguments
ZipLen(a, b) == Min(Len(a), Len(b))

\* mutant: one entry per source pixel, the target ranks reused cyclically
BuildMapping_cycle(src_pixels, tgt_pixels, src_sorted, tgt_sorted) ==
    [k \in 1..Len(src_sorted) |->
        MappingEntry(src_pixels[src_sorted[k] + 1],
                     tgt_pixels[tgt_sorted[((k - 1) % Len(tgt_sorted)) + 1] + 1])]

\* mutant: the pairs are cut from the other end of the two rankings
\* (zip(source_sorted_indices[-n:], target_sorted_indices[-n:]))
BuildMapping_tail(src_pixels, tgt_pixels, src_sorted, tgt_sorted) ==
    LET n == ZipLen(src_sorted, tgt_sorted)
    IN  [k \in 1..n |->
            MappingEntry(src_pixels[src_sorted[Len(src_sorted) - n + k] + 1],
                         tgt_pixels[tgt_sorted[Len(tgt_sorted) - n + k] + 1])]

\* for src_idx, tgt_idx in zip(source_sorted_indices, target_sorted_indices)
BuildMapping(src_pixels, tgt_pixels, src_sorted, tgt_sorted) ==
    [k \in 1..ZipLen(src_sorted, tgt_sorted) |->
        MappingEntry(src_pixels[src_sorted[k] + 1],
                     tgt_pixels[tgt_sorted[k] + 1])]

\* mutant: the generator is not seeded
SeedGenerator_missing(r, s) == r

\* the state np.random.seed(seed) leaves the process-wide generator in,
\* given the state r it was in
SeedGenerator(r, s) == RngSeed(s)

\* create_assignment run without interruption with the process-wide
\* generator in state r: the mapping, the perturbed luminances and the state
\* the generator is left in
create_assignment(src_pixels, tgt_pixels, s, r) ==
    LET r0 == SeedGenerator(r, s)
        src == PerturbLoop(Luminances(src_pixels), r0, <<>>)
        tgt == PerturbLoop(Luminances(tgt_pixels), src.rng, <<>>)
    IN  [mapping |-> BuildMapping(src_pixels, tgt_pixels,
                                  argsort(src.lum), argsort(tgt.lum)),
         source_luminance |-> src.lum,
         target_luminance |-> tgt.lum,
         rng |-> tgt.rng]

----------------------------------------------------------------------------
(* render.py: composition of the working-resolution raster at t = 1 *)

\* np.clip(v, lo, hi)
clip(v, lo, hi) == IF v < lo THEN lo ELSE IF v > hi THEN hi ELSE v

\* small_img[y_coords, x_coords] = colors, entry by entry in mapping order:
\* a later entry overwrites an earlier one that has the same cell
RECURSIVE WriteColors(_, _, _, _, _)
WriteColors(img, m, width, height, k) ==
    IF k > Len(m) THEN img
    ELSE LET y == clip(m[k].dst_pos[2], 0, height - 1)
             x == clip(m[k].dst_pos[1], 0, width - 1)
         IN  WriteColors([img EXCEPT ![y + 1][x + 1] = m[k].color],
                         m, width, height, k + 1)

\* np.zeros((height, width, 3))
Zeros(height, width) == [y \in 1..height |-> [x \in 1..width |-> <<0, 0, 0>>]]

\* mutant: the first entry of the mapping is not written
ComposeFinal_skip_first(m, width, height) ==
    WriteColors(Zeros(height, width), m, width, height, 2)

\* _create_image_from_mapping_vectorized with t = 1.0, before magnification
ComposeFinal(m, width, height) ==
    WriteColors(Zeros(height, width), m, width, height, 1)

----------------------------------------------------------------------------
(* The frame compositor of the animation: _create_frame_vectorized          *)
(* (render.py).  A time is a fraction <<numerator, denominator>>.           *)

\* mutant: every frame of the loop is composed at time 0
FrameTime_zero(idx, n) == <<0, 1>>

\* mutant: the time advances by 1/n, so that the last frame is before time 1
FrameTime_short(idx, n) == IF n > 1 THEN <<idx, n>> ELSE <<1, 1>>

\* t = frame_idx / (num_frames - 1) if num_frames > 1 else 1.0
FrameTime(idx, n) == IF n > 1 THEN <<idx, n - 1>> ELSE <<1, 1>>

\* np.round of the fraction num/den, den > 0: the nearest integer, the even
\* one of the two when the fraction lies halfway between them
np_round(num, den) ==
    LET q == num \div den
        r == num % den
    IN  IF 2 * r < den THEN q
        ELSE IF 2 * r > den THEN q + 1
        ELSE IF q % 2 = 0 THEN q ELSE q + 1

\* mutant: the interpolation runs from dst_pos to src_pos
current_pos_reversed(src, dst, tm) == dst * tm[2] + (src - dst) * tm[1]

\* mutant: the frame index is used as t, not its quotient by num_frames - 1
current_pos_by_index(src, dst, tm) == (src + (dst - src) * tm[1]) * tm[2]

\* one coordinate of src_pos + (dst_pos - src_pos) * t, as the numerator of a
\* fraction whose denominator is the denominator of t
current_pos(src, dst, tm) == src * tm[2] + (dst - src) * tm[1]

\* mutant: the two coordinates of a position are exchanged
positions_transposed(entry, tm) ==
    <<np_round(current_pos(entry.src_pos[2], entry.dst_pos[2], tm), tm[2]),
      np_round(current_pos(entry.src_pos[1], entry.dst_pos[1], tm), tm[2])>>

\* np.round(current_pos).astype(np.int32) for one entry: <<x, y>>
positions(entry, tm) ==
    <<np_round(current_pos(entry.src_pos[1], entry.dst_pos[1], tm), tm[2]),
      np_round(current_pos(entry.src_pos[2], entry.dst_pos[2], tm), tm[2])>>

\* small_img[y_coords, x_coords] = colors with the clipped positions, entry
\* by entry: a later entry overwrites an earlier one that has the same cell
RECURSIVE WritePositions(_, _, _, _, _, _)
WritePositions(img, m, tm, width, height, k) ==
    IF k > Len(m) THEN img
    ELSE LET p == positions(m[k], tm)
             y == clip(p[2], 0, height - 1)
             x == clip(p[1], 0, width - 1)
         IN  WritePositions([img EXCEPT ![y + 1][x + 1] = m[k].color],
                            m, tm, width, height, k + 1)

\* the working-resolution raster of a frame, before magnification
SmallFrame(m, width, height, tm) ==
    WritePositions(Zeros(height, width), m, tm, width, height, 1)

\* mutant: the source index is rounded to the nearest cell boundary
NearestIndex_rounded(i, src_len, dst_len) ==
    Min((2 * i * src_len + dst_len) \div (2 * dst_len), src_len - 1)

\* INTER_NEAREST: the source index of destination index i (both 0-based) is
\* floor(i * src_len / dst_len), at most the last source index
NearestIndex(i, src_len, dst_len) ==
    Min((i * src_len) \div dst_len, src_len - 1)

\* cv2.resize(img, (dst_width, dst_height), interpolation=cv2.INTER_NEAREST)
resize(img, dst_width, dst_height) ==
    LET src_height == Len(img)
        src_width == Len(img[1])
    IN  [Y \in 1..dst_height |-> [X \in 1..dst_width |->
            img[NearestIndex(Y - 1, src_height, dst_height) + 1]
               [NearestIndex(X - 1, src_width, dst_width) + 1]]]

\* _create_frame_vectorized: the raster is magnified only when scale > 1
create_frame_vectorized(m, width, height, sc, tm) ==
    LET small == SmallFrame(m, width, height, tm)
    IN  IF sc > 1 THEN resize(small, width * sc, height * sc) ELSE small

----------------------------------------------------------------------------------------------------------------------------------------
(* The sequential pipeline of run_mvp.main and process_images_task, followed *)
(* by a second create_assignment call with the same arguments.              *)

Init ==
    /\ pc = "start"
    /\ source_small \in Rasters
    /\ target_small \in Rasters
    /\ seed \in Seeds
    /\ rng = 0
    /\ source_pixels = <<>>
    /\ target_pixels = <<>>
    /\ source_luminance = <<>>
    /\ target_luminance = <<>>
    /\ mapping = <<>>
    /\ first_mapping = <<>>
    /\ small_img = <<>>
    /\ disturbed = FALSE
    /\ IdleRender
    /\ IdleAnimation
    /\ IdleStorage
    /\ IdleKdtree
    /\ IdleWeb
    /\ worker = <<>>

\* source_pixels = extract_pixels(source_small); target_pixels = ...
ExtractPixels ==
    /\ pc = "start"
    /\ pc' = "extracted"
    /\ source_pixels' = extract_pixels(source_small)
    /\ target_pixels' = extract_pixels(target_small)
    /\ UNCHANGED <<render, animation, storage, kdtree, web, source_small, target_small, seed, rng, source_luminance,
                   target_luminance, mapping, first_mapping, small_img,
                   disturbed, worker>>

\* mapping = create_assignment(source_pixels, target_pixels, seed)
CreateAssignment ==
    /\ pc \in {"extracted", "rendered"}
    /\ LET res == create_assignment(source_pixels, target_pixels, seed, rng)
       IN  /\ mapping' = res.mapping
           /\ source_luminance' = res.source_luminance
           /\ target_luminance' = res.target_luminance
           /\ rng' = res.rng
           /\ first_mapping' =
                 IF pc = "extracted" THEN res.mapping ELSE first_mapping
    /\ pc' = IF pc = "extracted" THEN "assigned" ELSE "reassigned"
    /\ UNCHANGED <<render, animation, storage, kdtree, web, source_small, target_small, seed, source_pixels,
                   target_pixels, small_img, disturbed, worker>>

\* create_final_image(mapping, source_small.shape, ...)
CreateFinalImage ==
    /\ pc = "assigned"
    /\ pc' = "rendered"
    /\ small_img' = ComposeFinal(mapping, Len(source_small[1]), Len(source_small))
    /\ UNCHANGED <<render, animation, storage, kdtree, web, source_small, target_small, seed, rng, source_pixels,
                   target_pixels, source_luminance, target_luminance, mapping,
                   first_mapping, disturbed, worker>>

\* a draw of another caller from the process-wide generator between the two
\* calls (np.random.choice of the diagnostic plot)
OtherDraw ==
    /\ pc = "rendered"
    /\ rng' = RngNext(rng)
    /\ disturbed' = TRUE
    /\ UNCHANGED <<render, animation, storage, kdtree, web, pipeline, worker>>

\* another caller seeds the process-wide generator between the two calls
\* (np.random.seed of create_kdtree_assignment)
OtherSeed ==
    /\ pc = "rendered"
    /\ \E s \in Seeds : rng' = SeedGenerator(rng, s)
    /\ disturbed' = TRUE
    /\ UNCHANGED <<render, animation, storage, kdtree, web, pipeline, worker>>

Next ==
    \/ ExtractPixels
    \/ CreateAssignment
    \/ CreateFinalImage
    \/ OtherDraw
    \/ OtherSeed

Spec == Init /\ [][Next]_vars

----------------------------------------------------------------------------
(* Properties of the mapping returned by create_assignment *)

\* create_assignment has returned
Called == pc \in {"assigned", "rendered", "reassigned"}

\* Python indices (+1) of the source pixels whose id occurs in the mapping
MappedSources ==
    {i \in 1..Len(source_pixels) :
        \E k \in 1..Len(mapping) : mapping[k].id = source_pixels[i].id}

\* Python indices (+1) of the target pixels whose position is a dst_pos
UsedTargets ==
    {j \in 1..Len(target_pixels) :
        \E k \in 1..Len(mapping) : mapping[k].dst_pos = target_pixels[j].src_pos}

EntryColors == {mapping[k].color : k \in 1..Len(mapping)}

EntriesOfColor(c) == {k \in 1..Len(mapping) : mapping[k].color = c}

\* C1: no source pixel id occurs in two entries of the mapping, and the
\* multiset of entry colors is the multiset of the colors of the source
\* pixels whose ids occur in the mapping, which is the whole source pool
\* when len(source) <= len(target).
C1_ColorPreservation ==
    Called =>
        /\ \A k, l \in 1..Len(mapping) :
              k # l => mapping[k].id # mapping[l].id
        /\ \A c \in Palette \cup EntryColors :
              Cardinality(EntriesOfColor(c)) =
              Cardinality({i \in MappedSources : source_pixels[i].color = c})
        /\ Len(source_pixels) <= Len(target_pixels) =>
              \A c \in Palette \cup EntryColors :
                  Cardinality(EntriesOfColor(c)) =
                  Cardinality({i \in 1..Len(source_pixels) :
                                  source_pixels[i].color = c})

\* a mapping of three entries of both colors that leaves a source pixel out
C1_Witness ==
    /\ pc = "assigned"
    /\ Len(source_pixels) > Len(target_pixels)
    /\ Len(mapping) = 3
    /\ EntryColors = Palette
    /\ \E i \in 1..Len(source_pixels) : i \notin MappedSources

\* a mapping of the whole source pool, two pixels of each color
C1_WitnessWhole ==
    /\ pc = "assigned"
    /\ Len(source_pixels) <= Len(target_pixels)
    /\ Cardinality(EntriesOfColor(Black)) = 2
    /\ Cardinality(EntriesOfColor(White)) = 2

\* C3: every entry takes id, color and src_pos from one source pixel: its
\* color and src_pos are those of the source pixel whose id is the entry's.
C3_EntryFromOneSourcePixel ==
    Called =>
        \A k \in 1..Len(mapping) :
            \E i \in 1..Len(source_pixels) :
                /\ source_pixels[i].id = mapping[k].id
                /\ source_pixels[i].color = mapping[k].color
                /\ source_pixels[i].src_pos = mapping[k].src_pos

\* an entry whose destination pixel has another color and another position
\* than its source pixel
C3_Witness ==
    /\ pc = "assigned"
    /\ \E k \in 1..Len(mapping) :
        \E j \in 1..Len(target_pixels) :
            /\ target_pixels[j].src_pos = mapping[k].dst_pos
            /\ target_pixels[j].color # mapping[k].color
            /\ mapping[k].dst_pos # mapping[k].src_pos

\* C4: the mapping has min(len(source_pixels), len(target_pixels)) entries,
\* N*N entries for two N x N rasters.
C4_MappingLength ==
    Called =>
        /\ Len(mapping) = Min(Len(source_pixels), Len(target_pixels))
        /\ \A n \in 1..MaxPixels :
              (/\ Len(source_small) = n /\ Len(source_small[1]) = n
               /\ Len(target_small) = n /\ Len(target_small[1]) = n)
              => Len(mapping) = n * n

\* four source pixels and three target pixels
C4_Witness ==
    /\ pc = "assigned"
    /\ Len(source_pixels) = 4
    /\ Len(target_pixels) = 3
    /\ Len(mapping) = 3

\* two 2 x 2 rasters
C4_WitnessSquare ==
    /\ pc = "assigned"
    /\ Len(source_small) = 2 /\ Len(source_small[1]) = 2
    /\ Len(target_small) = 2 /\ Len(target_small[1]) = 2
    /\ Len(mapping) = 4

\* C5: every dst_pos is the position of a target pixel, no target pixel
\* supplies the dst_pos of two entries, and with pools of the same length
\* every target position is the dst_pos of exactly one entry.
C5_DestinationsAreTargetPositions ==
    Called =>
        /\ \A k \in 1..Len(mapping) :
              \E j \in 1..Len(target_pixels) :
                  target_pixels[j].src_pos = mapping[k].dst_pos
        /\ \A j \in 1..Len(target_pixels) :
              Cardinality({k \in 1..Len(mapping) :
                  mapping[k].dst_pos = target_pixels[j].src_pos}) <= 1
        /\ Len(source_pixels) = Len(target_pixels) =>
              \A j \in 1..Len(target_pixels) :
                  Cardinality({k \in 1..Len(mapping) :
                      mapping[k].dst_pos = target_pixels[j].src_pos}) = 1

\* pools of the same length and of different shapes, all pixels moving
C5_Witness ==
    /\ pc = "assigned"
    /\ Len(source_pixels) = 4
    /\ Len(target_pixels) = 4
    /\ Len(source_small) # Len(target_small)
    /\ UsedTargets = 1..4

\* a target pool longer than the source pool: a target position stays unused
C5_WitnessUnused ==
    /\ pc = "assigned"
    /\ Len(source_pixels) < Len(target_pixels)
    /\ UsedTargets # 1..Len(target_pixels)

\* Python index (+1) of the source pixel an entry names by its id
SourceIndex(entry) ==
    CHOOSE i \in 1..Len(source_pixels) : source_pixels[i].id = entry.id

\* Python index (+1) of the target pixel whose position is the entry's dst_pos
TargetIndex(entry) ==
    CHOOSE j \in 1..Len(target_pixels) :
        target_pixels[j].src_pos = entry.dst_pos

\* keys[i] is the k-th smallest of keys, k counted from 1
KthSmallest(keys, i, k) ==
    /\ Cardinality({n \in 1..Len(keys) : keys[n] < keys[i]}) <= k - 1
    /\ Cardinality({n \in 1..Len(keys) : keys[n] <= keys[i]}) >= k

\* both rasters are n x n
BothSquare(n) ==
    /\ Len(source_small) = n /\ Len(source_small[1]) = n
    /\ Len(target_small) = n /\ Len(target_small[1]) = n

\* the entries that write the cell of column x, row y of the working raster
Writers(x, y) ==
    {k \in 1..Len(mapping) :
        /\ clip(mapping[k].dst_pos[1], 0, Len(source_small[1]) - 1) = x
        /\ clip(mapping[k].dst_pos[2], 0, Len(source_small) - 1) = y}

\* the cells <<row, column>> of an image that have color c
CellsOfColor(img, c) ==
    {cell \in (1..Len(img)) \X (1..Len(img[1])) : img[cell[1]][cell[2]] = c}

\* C2: for two N x N rasters every cell of the working raster composed at
\* t = 1 is written by exactly one mapping entry and shows its color, so the
\* multiset of its colors is that of the source raster.
C2_FinalImageIsPermutation ==
    (pc = "rendered" /\ \E n \in 1..MaxPixels : BothSquare(n)) =>
        /\ \A y \in 0..(Len(source_small) - 1) :
           \A x \in 0..(Len(source_small[1]) - 1) :
              /\ Cardinality(Writers(x, y)) = 1
              /\ \A k \in Writers(x, y) :
                    small_img[y + 1][x + 1] = mapping[k].color
        /\ \A c \in Palette \cup {<<0, 0, 0>>} :
              Cardinality(CellsOfColor(small_img, c)) =
              Cardinality(CellsOfColor(source_small, c))

\* two 2 x 2 rasters with two white source pixels each: the composed raster
\* differs from the source raster
C2_Witness ==
    /\ pc = "rendered"
    /\ BothSquare(2)
    /\ small_img # source_small
    /\ Cardinality(CellsOfColor(source_small, White)) = 2
    /\ Cardinality(CellsOfColor(target_small, White)) = 2

\* C6: a second call with the same pools and seed returns the mapping of the
\* first call, whatever other callers drew from the generator in between.
C6_SameArgumentsSameMapping ==
    pc = "reassigned" => mapping = first_mapping

\* the second call came after another caller had used the generator, and the
\* noise decides the order: two source pixels of one color are not in id order
C6_Witness ==
    /\ pc = "reassigned"
    /\ disturbed
    /\ \E k \in 1..(Len(mapping) - 1) :
          /\ mapping[k].color = mapping[k + 1].color
          /\ mapping[k].id > mapping[k + 1].id

\* C8: entry k (counted from 1) pairs the source pixel that has the k-th
\* smallest perturbed luminance of the source pool with the target pixel
\* that has the k-th smallest perturbed luminance of the target pool, so the
\* entries are in rank order.
C8_PairsByRank ==
    Called =>
        \A k \in 1..Len(mapping) :
            /\ KthSmallest(source_luminance, SourceIndex(mapping[k]), k)
            /\ KthSmallest(target_luminance, TargetIndex(mapping[k]), k)

\* a mapping of both colors whose entries are not in id order
C8_Witness ==
    /\ pc = "assigned"
    /\ Len(mapping) >= 3
    /\ EntryColors = Palette
    /\ \E k \in 1..(Len(mapping) - 1) : mapping[k].id > mapping[k + 1].id
    /\ \E k \in 1..Len(mapping) : mapping[k].dst_pos # mapping[k].src_pos

\* C9: with a longer source pool the mapping has len(target) entries and no
\* absent source pixel has a smaller perturbed luminance than a mapped one;
\* with a longer target pool the mapping has len(source) entries and no
\* unused target pixel has a smaller perturbed luminance than a used one.
C9_TruncationDropsLastRanks ==
    Called =>
        /\ Len(source_pixels) > Len(target_pixels) =>
              /\ Len(mapping) = Len(target_pixels)
              /\ Cardinality(MappedSources) = Len(target_pixels)
              /\ \A i \in (1..Len(source_pixels)) \ MappedSources :
                 \A j \in MappedSources :
                    source_luminance[j] <= source_luminance[i]
        /\ Len(target_pixels) > Len(source_pixels) =>
              /\ Len(mapping) = Len(source_pixels)
              /\ Cardinality(UsedTargets) = Len(source_pixels)
              /\ \A i \in (1..Len(target_pixels)) \ UsedTargets :
                 \A j \in UsedTargets :
                    target_luminance[j] <= target_luminance[i]

\* four source pixels, three target pixels: the absent pixel is the white
\* pixel of id 0
C9_Witness ==
    /\ pc = "assigned"
    /\ Len(source_pixels) = 4
    /\ Len(target_pixels) = 3
    /\ Len(mapping) = 3
    /\ 1 \notin MappedSources
    /\ source_pixels[1].color = White

\* three source pixels, four target pixels: the unused position is the first
C9_WitnessTarget ==
    /\ pc = "assigned"
    /\ Len(source_pixels) = 3
    /\ Len(target_pixels) = 4
    /\ 1 \notin UsedTargets

----------------------------------------------------------------------------
(* extract_pixels applied to one raster of any shape *)

InitExtract ==
    /\ pc = "start"
    /\ source_small \in ExtractRasters
    /\ target_small = <<>>
    /\ seed = MIN_SEED
    /\ rng = 0
    /\ source_pixels = <<>>
    /\ target_pixels = <<>>
    /\ source_luminance = <<>>
    /\ target_luminance = <<>>
    /\ mapping = <<>>
    /\ first_mapping = <<>>
    /\ small_img = <<>>
    /\ disturbed = FALSE
    /\ IdleRender
    /\ IdleAnimation
    /\ IdleStorage
    /\ IdleKdtree
    /\ IdleWeb
    /\ worker = <<>>

\* source_pixels = extract_pixels(source_small)
ExtractSource ==
    /\ pc = "start"
    /\ pc' = "extracted"
    /\ source_pixels' = extract_pixels(source_small)
    /\ UNCHANGED <<render, animation, storage, kdtree, web, source_small, target_small, seed, rng, target_pixels,
                   source_luminance, target_luminance, mapping, first_mapping,
                   small_img, disturbed, worker>>

NextExtract == ExtractSource

SpecExtract == InitExtract /\ [][NextExtract]_vars

\* C10: extract_pixels returns H*W records in row-major order: the record of
\* Python index i has id i, src_pos [i mod W, i div W] and the color of row
\* i div W, column i mod W; the ids are pairwise distinct.
C10_ExtractRowMajor ==
    pc = "extracted" =>
        LET H == Len(source_small)
            W == Len(source_small[1])
        IN  /\ Len(source_pixels) = H * W
            /\ \A i \in 0..(H * W - 1) :
                  /\ source_pixels[i + 1].id = i
                  /\ source_pixels[i + 1].src_pos = <<i % W, i \div W>>
                  /\ source_pixels[i + 1].color =
                        source_small[(i \div W) + 1][(i % W) + 1]
            /\ \A i, j \in 1..Len(source_pixels) :
                  i # j => source_pixels[i].id # source_pixels[j].id

\* a 2 x 2 raster whose pixels (x=1, y=0) and (x=0, y=1) differ in color
C10_Witness ==
    /\ pc = "extracted"
    /\ Len(source_small) = 2
    /\ Len(source_small[1]) = 2
    /\ source_pixels[2].color = Red
    /\ source_pixels[3].color = White

\* a raster of three rows and one column
C10_WitnessColumn ==
    /\ pc = "extracted"
    /\ Len(source_small) = 3
    /\ Len(source_small[1]) = 1
    /\ source_pixels[3].src_pos = <<0, 2>>

----------------------------------------------------------------------------
(* Two worker threads of the web layer (app.py: upload_files starts one     *)
(* thread per upload) inside create_assignment at the same time. A thread   *)
(* can be suspended between any two calls of np.random, and both threads    *)
(* use the one process-wide generator.                                      *)

Threads == {1, 2}

\* the locals of a create_assignment call that has not started
NewWorker(src_pixels, tgt_pixels, s) ==
    [pc |-> "seed",
     source_pixels |-> src_pixels,
     target_pixels |-> tgt_pixels,
     seed |-> s,
     source_luminance |-> <<>>,
     target_luminance |-> <<>>,
     mapping |-> <<>>]

WorkerInputs ==
    {NewWorker(extract_pixels(a), extract_pixels(b), s) :
        a \in WorkerRasters, b \in WorkerRasters, s \in Seeds}

InitConc ==
    /\ pc = "start"
    /\ source_small = <<>>
    /\ target_small = <<>>
    /\ seed = MIN_SEED
    /\ rng = 0
    /\ source_pixels = <<>>
    /\ target_pixels = <<>>
    /\ source_luminance = <<>>
    /\ target_luminance = <<>>
    /\ mapping = <<>>
    /\ first_mapping = <<>>
    /\ small_img = <<>>
    /\ disturbed = FALSE
    /\ IdleRender
    /\ IdleAnimation
    /\ IdleStorage
    /\ IdleKdtree
    /\ IdleWeb
    /\ worker \in [Threads -> WorkerInputs]

\* np.random.seed(seed)
WorkerSeed(t) ==
    /\ worker[t].pc = "seed"
    /\ rng' = SeedGenerator(rng, worker[t].seed)
    /\ worker' = [worker EXCEPT ![t].pc = "source_noise"]
    /\ UNCHANGED <<render, animation, storage, kdtree, web, pipeline, disturbed>>

\* one element of [lum + np.random.uniform(...) for lum in source_luminance]
WorkerDrawSource(t) ==
    LET w == worker[t]
        n == Len(w.source_luminance)
        lum == calculate_luminance(w.source_pixels[n + 1].color)
    IN  /\ w.pc = "source_noise"
        /\ rng' = RngNext(rng)
        /\ worker' = [worker EXCEPT
              ![t].source_luminance = Append(@, Perturbed(lum, uniform(rng))),
              ![t].pc = IF n + 1 = Len(w.source_pixels)
                        THEN "target_noise" ELSE "source_noise"]
        /\ UNCHANGED <<render, animation, storage, kdtree, web, pipeline, disturbed>>

\* one element of [lum + np.random.uniform(...) for lum in target_luminance]
WorkerDrawTarget(t) ==
    LET w == worker[t]
        n == Len(w.target_luminance)
        lum == calculate_luminance(w.target_pixels[n + 1].color)
    IN  /\ w.pc = "target_noise"
        /\ rng' = RngNext(rng)
        /\ worker' = [worker EXCEPT
              ![t].target_luminance = Append(@, Perturbed(lum, uniform(rng))),
              ![t].pc = IF n + 1 = Len(w.target_pixels)
                        THEN "sort" ELSE "target_noise"]
        /\ UNCHANGED <<render, animation, storage, kdtree, web, pipeline, disturbed>>

\* the two np.argsort calls and the loop that builds the mapping
WorkerBuild(t) ==
    LET w == worker[t]
    IN  /\ w.pc = "sort"
        /\ worker' = [worker EXCEPT
              ![t].mapping = BuildMapping(w.source_pixels, w.target_pixels,
                                          argsort(w.source_luminance),
                                          argsort(w.target_luminance)),
              ![t].pc = "done"]
        /\ UNCHANGED <<render, animation, storage, kdtree, web, pipeline, rng, disturbed>>

NextConc ==
    \E t \in Threads :
        \/ WorkerSeed(t)
        \/ WorkerDrawSource(t)
        \/ WorkerDrawTarget(t)
        \/ WorkerBuild(t)

SpecConc == InitConc /\ [][NextConc]_vars

\* the mapping a call returns when no other thread uses the generator
MappingAlone(w) ==
    create_assignment(w.source_pixels, w.target_pixels, w.seed, 0).mapping

\* C7: each of two concurrent create_assignment calls returns the mapping
\* it returns when run alone.
C7_ConcurrentCallsIndependent ==
    \A t \in Threads :
        worker[t].pc = "done" => worker[t].mapping = MappingAlone(worker[t])

\* a call that ran with no step of the other thread after its seeding
\* started returns the mapping it returns alone
WorkerAloneAgrees ==
    \A t \in Threads :
        (worker[t].pc = "done" /\ \A u \in Threads \ {t} : worker[u].pc = "seed")
            => worker[t].mapping = MappingAlone(worker[t])

----------------------------------------------------------------------------
(* Frames composed from the mapping of two rasters of the same shape, as    *)
(* preprocess_images returns them (both size x size).                       *)

InitFrame ==
    /\ Init
    /\ Len(source_small) = Len(target_small)
    /\ Len(source_small[1]) = Len(target_small[1])

\* one iteration of create_animation's loop: frame frame_idx of num_frames
CreateFrame ==
    /\ pc = "assigned"
    /\ \E sc \in 1..MaxScale, n \in 1..MaxFrames : \E idx \in 0..(n - 1) :
          LET tm == FrameTime(idx, n)
              height == Len(source_small)
              width == Len(source_small[1])
          IN  /\ scale' = sc
              /\ frame_t' = tm
              /\ small_img' = SmallFrame(mapping, width, height, tm)
              /\ frame' = create_frame_vectorized(mapping, width, height,
                                                  sc, tm)
    /\ UNCHANGED <<pc, source_small, target_small, seed, rng, source_pixels,
                   target_pixels, source_luminance, target_luminance,
                   mapping, first_mapping, disturbed, worker, animation,
                   storage, final_image, kdtree, web>>

NextFrame ==
    \/ ExtractPixels
    \/ CreateAssignment
    \/ CreateFrame

SpecFrame == InitFrame /\ [][NextFrame]_vars

\* a frame has been composed
FrameComposed == pc = "assigned" /\ frame # <<>>

\* the block of scale x scale pixels of frame f whose working cell is
\* position <<x, y>> lies inside f and has the given color everywhere
BlockShows(f, position, sc, color) ==
    \A dy \in 0..(sc - 1), dx \in 0..(sc - 1) :
        LET Y == position[2] * sc + dy + 1
            X == position[1] * sc + dx + 1
        IN  /\ Y \in DOMAIN f
            /\ X \in DOMAIN f[Y]
            /\ f[Y][X] = color

Magnified(img, sc) ==
    [Y \in 1..(Len(img) * sc) |-> [X \in 1..(Len(img[1]) * sc) |->
        img[((Y - 1) \div sc) + 1][((X - 1) \div sc) + 1]]]

\* C15: the frame composed at t = 0 from the mapping of two rasters of the
\* same shape (N x N in the pipeline) is the source raster magnified by
\* scale, and no two entries are written to the same cell.
C15_FrameAtZeroIsSource ==
    (FrameComposed /\ frame_t[1] = 0) =>
        /\ frame = Magnified(source_small, scale)
        /\ \A j, k \in DOMAIN mapping :
              j # k => positions(mapping[j], frame_t)
                          # positions(mapping[k], frame_t)
        /\ \A k \in DOMAIN mapping :
              BlockShows(frame, mapping[k].src_pos, scale, mapping[k].color)

\* a magnified frame at t = 0 of two different 2 x 2 rasters, the source
\* of two colors
C15_Witness ==
    /\ FrameComposed
    /\ frame_t[1] = 0
    /\ scale = 2
    /\ BothSquare(2)
    /\ source_small # target_small
    /\ source_small[1][1] # source_small[1][2]
    /\ \E k \in DOMAIN mapping : mapping[k].dst_pos # mapping[k].src_pos

\* C16: a frame composed with scale >= 1 from a working raster of H rows
\* and W columns has H*scale rows of W*scale pixels of 3 channels, and its
\* pixel in row Y, column X has the color of the working cell in row
\* Y div scale, column X div scale.
C16_FrameIsMagnifiedRaster ==
    (FrameComposed /\ scale >= 1) =>
        LET H == Len(source_small)
            W == Len(source_small[1])
        IN  /\ Len(small_img) = H
            /\ Len(frame) = H * scale
            /\ \A Y \in 0..(H * scale - 1) :
                  /\ Len(frame[Y + 1]) = W * scale
                  /\ \A X \in 0..(W * scale - 1) :
                        /\ Len(frame[Y + 1][X + 1]) = 3
                        /\ frame[Y + 1][X + 1]
                              = small_img[(Y \div scale) + 1][(X \div scale) + 1]

\* a frame magnified by 2 whose working raster has cells of two colors and
\* is not square
C16_Witness ==
    /\ FrameComposed
    /\ scale = 2
    /\ Len(small_img) = 1
    /\ Len(small_img[1]) >= 2
    /\ small_img[1][1] # small_img[1][2]
    /\ frame_t[1] # 0
    /\ frame_t[1] # frame_t[2]

\* a frame composed with scale = 1 is the working raster itself
C16_WitnessUnit ==
    /\ FrameComposed
    /\ scale = 1
    /\ Len(small_img) = 2
    /\ small_img[1][1] # small_img[2][1]

----------------------------------------------------------------------------
(* create_animation and _save_animation_optimized (render.py), called with  *)
(* the mapping of a source row whose first pixel is black and the others    *)
(* white.  A frame of the list frames is the raster that was composed.      *)

\* duration arguments, in units of 1/DurationUnit seconds
Durations == {-5, 0, 1, 5, 8, 10, 15}

\* output_format arguments: the two of ALLOWED_FORMATS and another one
Formats == {"mp4", "gif", "avi"}

\* frames_dir arguments: None, a directory that exists (create_output_dir
\* makes it for run_mvp) and one that does not (the web task never makes it)
FramesDirs == {"none", "present", "absent"}

AnimSource == <<[x \in 1..WorkerPixels |-> IF x = 1 THEN Black ELSE White]>>

\* int(x) for the fraction x = num/den, den > 0: truncation toward zero
py_int(num, den) == IF num >= 0 THEN num \div den ELSE -((-num) \div den)

DigitChars == <<"0", "1", "2", "3", "4", "5", "6", "7", "8", "9">>

\* the decimal digits of n >= 0, most significant first
RECURSIVE Digits(_)
Digits(n) == IF n < 10 THEN <<n>> ELSE Append(Digits(n \div 10), n % 10)

\* the format specification 0<w>d applied to digits: zeros on the left up
\* to width w, nothing removed
RECURSIVE ZeroPad(_, _)
ZeroPad(ds, w) == IF Len(ds) >= w THEN ds ELSE ZeroPad(<<0>> \o ds, w)

RECURSIVE DigitString(_)
DigitString(ds) ==
    IF ds = <<>> THEN "" ELSE DigitChars[Head(ds) + 1] \o DigitString(Tail(ds))

\* f"frame_{frame_idx:04d}.png"
frame_path(idx) == "frame_" \o DigitString(ZeroPad(Digits(idx), 4)) \o ".png"

\* cv2.imwrite(str(frame_path), ...): the file appears when its directory
\* exists; otherwise imwrite returns False, which the caller ignores
imwrite(files, dir, name) == IF dir = "present" THEN Append(files, name) ELSE files

\* [final_frame] * n
Copies(x, n) == [k \in 1..n |-> x]

\* mutant: the final image is not magnified
create_final_image_unscaled(m, width, height, sc) == ComposeFinal(m, width, height)

\* create_final_image: _create_image_from_mapping_vectorized with its
\* default t = 1.0, magnified when scale > 1
create_final_image(m, width, height, sc) ==
    LET small == ComposeFinal(m, width, height)
    IN  IF sc > 1 THEN resize(small, width * sc, height * sc) ELSE small

InitAnim ==
    /\ pc = "final_image"
    /\ source_small = AnimSource
    /\ target_small \in WorkerRasters
    /\ seed \in Seeds
    /\ source_pixels = extract_pixels(source_small)
    /\ target_pixels = extract_pixels(target_small)
    /\ LET a == create_assignment(source_pixels, target_pixels, seed, 0)
       IN  /\ mapping = a.mapping
           /\ first_mapping = a.mapping
           /\ source_luminance = a.source_luminance
           /\ target_luminance = a.target_luminance
           /\ rng = a.rng
    /\ small_img = <<>>
    /\ disturbed = FALSE
    /\ worker = <<>>
    /\ scale \in 0..MaxScale
    /\ frame_t = <<1, 1>>
    /\ frame = <<>>
    /\ final_image = <<>>
    /\ fps \in 0..MaxFps
    /\ duration \in Durations
    /\ output_format \in Formats
    /\ frames_dir \in FramesDirs
    /\ num_frames = 0
    /\ frame_idx = 0
    /\ frames = <<>>
    /\ times = <<>>
    /\ frame_files = <<>>
    /\ encoded = <<>>
    /\ error = ""
    /\ IdleStorage
    /\ IdleKdtree
    /\ IdleWeb

\* everything create_animation leaves alone
AnimFixed == <<source_small, target_small, seed, rng, source_pixels,
               target_pixels, source_luminance, target_luminance, mapping,
               first_mapping, disturbed, worker, scale, fps, duration,
               output_format, frames_dir, storage, kdtree, web>>

\* create_final_image(mapping, source_small.shape, path, scale), which the
\* web task calls before create_animation
FinalImage ==
    /\ pc = "final_image"
    /\ final_image' = create_final_image(mapping, Len(source_small[1]),
                                         Len(source_small), scale)
    /\ pc' = "animation"
    /\ UNCHANGED <<AnimFixed, small_img, frame_t, frame, animation>>

\* lines 108-119: num_frames = int(fps * duration), frames = []
StartAnimation ==
    /\ pc = "animation"
    /\ num_frames' = py_int(fps * duration, DurationUnit)
    /\ frame_idx' = 0
    /\ frames' = <<>>
    /\ pc' = "loop"
    /\ UNCHANGED <<AnimFixed, final_image, small_img, frame_t, frame, times, frame_files,
                   encoded, error>>

\* one iteration of the loop over range(num_frames): compose the frame,
\* write its file when frames_dir is given, append it to frames
FrameStep ==
    /\ pc = "loop"
    /\ frame_idx < num_frames
    /\ LET tm == FrameTime(frame_idx, num_frames)
           height == Len(source_small)
           width == Len(source_small[1])
           composed == create_frame_vectorized(mapping, width, height,
                                               scale, tm)
       IN  /\ frame_t' = tm
           /\ small_img' = SmallFrame(mapping, width, height, tm)
           /\ frame' = composed
           /\ frame_files' = IF frames_dir # "none"
                              THEN imwrite(frame_files, frames_dir,
                                           frame_path(frame_idx))
                              ELSE frame_files
           /\ frames' = Append(frames, composed)
           /\ times' = Append(times, tm)
    /\ frame_idx' = frame_idx + 1
    /\ UNCHANGED <<AnimFixed, final_image, pc, num_frames, encoded, error>>

\* lines 135-136 after the loop: final_frame = frames[-1] raises IndexError
\* on an empty list; otherwise int(fps) copies of it are appended
HoldFinalFrame ==
    /\ pc = "loop"
    /\ frame_idx >= num_frames
    /\ IF frames = <<>>
       THEN /\ error' = "IndexError"
            /\ pc' = "failed"
            /\ UNCHANGED <<frames, times>>
       ELSE /\ frames' = frames \o Copies(frames[Len(frames)], fps)
            /\ times' = times \o Copies(times[Len(times)], fps)
            /\ pc' = "encode"
            /\ UNCHANGED error
    /\ UNCHANGED <<AnimFixed, final_image, small_img, frame_t, frame, num_frames,
                   frame_idx, frame_files, encoded>>

\* _save_animation_optimized: the GIF writer for "gif", the libx264 writer
\* for every other output_format
SaveAnimation ==
    /\ pc = "encode"
    /\ encoded' = [writer |-> IF output_format = "gif" THEN "gif"
                                                       ELSE "libx264",
                   frames |-> frames,
                   fps |-> fps]
    /\ pc' = "done"
    /\ UNCHANGED <<AnimFixed, final_image, small_img, frame_t, frame, num_frames,
                   frame_idx, frames, times, frame_files, error>>

NextAnim ==
    \/ FinalImage
    \/ StartAnimation
    \/ FrameStep
    \/ HoldFinalFrame
    \/ SaveAnimation

SpecAnim == InitAnim /\ [][NextAnim]_vars

Max(a, b) == IF a >= b THEN a ELSE b

\* the loop of create_animation is over
LoopOver == pc \in {"encode", "done", "failed"}

\* create_animation has returned or raised
AnimationOver == pc \in {"done", "failed"}

\* round(fps * duration), and 1 where that is less than 1
RoundedFrames == Max(1, np_round(fps * duration, DurationUnit))

\* C11: for fps >= 1 and duration > 0, create_animation composes exactly
\* round(fps * duration) frames, and never fewer than 1.
C11_FrameCountIsRounded ==
    (fps >= 1 /\ duration > 0 /\ LoopOver) =>
        frame_idx = RoundedFrames

\* what the code composes: int(fps * duration) frames, possibly none
FrameCountIsTruncated ==
    LoopOver => frame_idx = Max(0, py_int(fps * duration, DurationUnit))

\* C12: for fps >= 1 and duration > 0, the sequence handed to the encoder
\* is the generated frames followed by exactly fps copies of the last
\* generated frame, round(fps * duration) + fps frames in all.
C12_EncodedFramesAndHold ==
    (fps >= 1 /\ duration > 0 /\ AnimationOver) =>
        /\ encoded # <<>>
        /\ Len(encoded.frames) = RoundedFrames + fps
        /\ \A k \in 1..fps :
              encoded.frames[RoundedFrames + k] = encoded.frames[RoundedFrames]

\* what the code hands to the encoder when it reaches it: the int(fps *
\* duration) generated frames, then fps copies of the last of them
EncodedIsGeneratedThenHold ==
    pc = "done" =>
        /\ frame_idx = py_int(fps * duration, DurationUnit)
        /\ Len(encoded.frames) = frame_idx + fps
        /\ \A i \in 1..frame_idx :
              encoded.frames[i]
                = create_frame_vectorized(mapping, Len(source_small[1]),
                                          Len(source_small), scale, times[i])
        /\ \A k \in 1..fps :
              encoded.frames[frame_idx + k] = encoded.frames[frame_idx]

\* the fraction a is less than the fraction b (denominators positive)
Less(a, b) == a[1] * b[2] < b[1] * a[2]

\* C13: when num_frames > 1 the frame with index i is composed at
\* t = i/(num_frames-1): the first at 0, the last generated one at 1, and t
\* strictly increases along the generated frames; when num_frames = 1 the
\* one generated frame is composed at t = 1.
C13_FrameTimes ==
    (pc \in {"loop", "encode", "done"}) =>
        /\ \A i \in 0..(frame_idx - 1) :
              /\ times[i + 1][2] > 0
              /\ IF num_frames > 1
                 THEN times[i + 1][1] * (num_frames - 1) = i * times[i + 1][2]
                 ELSE times[i + 1][1] = times[i + 1][2]
              /\ frames[i + 1]
                   = create_frame_vectorized(mapping, Len(source_small[1]),
                                             Len(source_small), scale,
                                             times[i + 1])
        /\ (num_frames > 1 /\ frame_idx >= 1) => times[1][1] = 0
        /\ (num_frames >= 1 /\ frame_idx = num_frames) =>
              times[num_frames][1] = times[num_frames][2]
        /\ \A i, j \in 1..frame_idx : i < j => Less(times[i], times[j])

\* an encoded animation of three generated frames, the first and the last
\* of them different
C13_Witness ==
    /\ pc = "done"
    /\ num_frames = 3
    /\ frame_idx = 3
    /\ times[2][1] # 0
    /\ times[2][1] # times[2][2]
    /\ frames[1] # frames[3]

\* an encoded animation of one generated frame
C13_WitnessSingle ==
    /\ pc = "done"
    /\ num_frames = 1
    /\ Len(times) = 1 + fps

\* C17: create_animation rejects scale < 1, fps < 1 or duration <= 0 with
\* an error before any frame is composed, any frame file is written or
\* anything is encoded.
C17_InvalidParametersRejected ==
    (scale < 1 \/ fps < 1 \/ duration <= 0) =>
        /\ frames = <<>>
        /\ frame_files = <<>>
        /\ encoded = <<>>
        /\ AnimationOver => error # ""

\* C18: when output_format is neither "mp4" nor "gif", the encoder fails
\* with an error and encodes no animation.
C18_UnknownFormatNotEncoded ==
    (output_format \notin {"mp4", "gif"}) =>
        /\ encoded = <<>>
        /\ pc = "done" => error # ""

\* the index i < 10000 written with exactly four decimal digits
FourDigits(i) ==
    DigitChars[((i \div 1000) % 10) + 1] \o DigitChars[((i \div 100) % 10) + 1]
        \o DigitChars[((i \div 10) % 10) + 1] \o DigitChars[(i % 10) + 1]

\* the frame files are those of the frames composed so far, in index order
FilesOfGeneratedFrames ==
    /\ Len(frame_files) = frame_idx
    /\ \A i \in 0..(frame_idx - 1) :
          frame_files[i + 1] = "frame_" \o FourDigits(i) \o ".png"

\* C20: when a frames directory is given, create_animation has written,
\* whenever it is about to compose the next frame or has finished, exactly
\* the files frame_0000.png, frame_0001.png, ... of the frames generated so
\* far, in index order, and no file for a hold frame.
C20_OneFilePerGeneratedFrame ==
    (frames_dir # "none") => FilesOfGeneratedFrames

\* the same for a frames directory that exists, as run_mvp passes it
FrameFilesInExistingDirectory ==
    (frames_dir = "present") => FilesOfGeneratedFrames

----------------------------------------------------------------------------
(* save_mapping and load_mapping (fileio.py): json.dump writes the list of  *)
(* entries as text, json.load parses the text.  The text is a sequence of   *)
(* characters; the content of a string literal is one element of it, and    *)
(* the white space of indent=2, which the parser skips, is left out.        *)

\* the characters of a sequence of digits
DigitText(ds) == [k \in 1..Len(ds) |-> DigitChars[ds[k] + 1]]

\* mutant: the sign of a negative integer is not written
EncodeInt_unsigned(n) == IF n < 0 THEN DigitText(Digits(-n)) ELSE DigitText(Digits(n))

\* json.dump of an int: its decimal digits, after a minus sign when negative
EncodeInt(n) ==
    IF n < 0 THEN <<"-">> \o DigitText(Digits(-n)) ELSE DigitText(Digits(n))

\* json.dump of a list of ints from its element k on, after the bracket
RECURSIVE EncodeInts(_, _)
EncodeInts(xs, k) ==
    IF k > Len(xs) THEN <<"]">>
    ELSE (IF k > 1 THEN <<",">> ELSE <<>>) \o EncodeInt(xs[k])
             \o EncodeInts(xs, k + 1)

EncodeList(xs) == <<"[">> \o EncodeInts(xs, 1)

\* json.dump of a dictionary key
EncodeKey(name) == <<"\"", name, "\"", ":">>

\* json.dump of one entry: its keys in the order create_assignment inserts
\* them
EncodeEntry(e) ==
    <<"{">> \o EncodeKey("id") \o EncodeInt(e.id) \o <<",">>
            \o EncodeKey("color") \o EncodeList(e.color) \o <<",">>
            \o EncodeKey("src_pos") \o EncodeList(e.src_pos) \o <<",">>
            \o EncodeKey("dst_pos") \o EncodeList(e.dst_pos) \o <<"}">>

RECURSIVE EncodeEntries(_, _)
EncodeEntries(m, k) ==
    IF k > Len(m) THEN <<"]">>
    ELSE (IF k > 1 THEN <<",">> ELSE <<>>) \o EncodeEntry(m[k])
             \o EncodeEntries(m, k + 1)

\* json.dump(mapping, f, indent=2)
json_dump(m) == <<"[">> \o EncodeEntries(m, 1)

DigitValue(c) == CHOOSE d \in 0..9 : DigitChars[d + 1] = c

IsDigit(c) == \E d \in 0..9 : DigitChars[d + 1] = c

\* the digits of a number from position i on: its value and the position
\* after it
RECURSIVE ScanDigits(_, _, _)
ScanDigits(text, i, acc) ==
    IF i <= Len(text) /\ IsDigit(text[i])
    THEN ScanDigits(text, i + 1, acc * 10 + DigitValue(text[i]))
    ELSE [val |-> acc, pos |-> i]

\* a JSON number without fraction or exponent: parsed to an int
ParseNumber(text, i) ==
    IF text[i] = "-"
    THEN LET r == ScanDigits(text, i + 1, 0) IN [val |-> -r.val, pos |-> r.pos]
    ELSE ScanDigits(text, i, 0)

\* a JSON value at position i: a list, a dictionary or a number
RECURSIVE ParseValue(_, _)
RECURSIVE ParseElements(_, _, _)
RECURSIVE ParseMembers(_, _, _)

\* the elements of a list after its bracket, appended to acc
ParseElements(text, i, acc) ==
    IF text[i] = "]" THEN [val |-> acc, pos |-> i + 1]
    ELSE IF text[i] = "," THEN ParseElements(text, i + 1, acc)
    ELSE LET r == ParseValue(text, i)
         IN  ParseElements(text, r.pos, Append(acc, r.val))

\* the members of a dictionary after its brace, added to acc; text[i] is
\* the opening quote of a key and text[i + 3] the colon after it
ParseMembers(text, i, acc) ==
    IF text[i] = "}" THEN [val |-> acc, pos |-> i + 1]
    ELSE IF text[i] = "," THEN ParseMembers(text, i + 1, acc)
    ELSE LET r == ParseValue(text, i + 4)
         IN  ParseMembers(text, r.pos, (text[i + 1] :> r.val) @@ acc)

ParseValue(text, i) ==
    IF text[i] = "[" THEN ParseElements(text, i + 1, <<>>)
    ELSE IF text[i] = "{" THEN ParseMembers(text, i + 1, <<>>)
    ELSE ParseNumber(text, i)

\* json.load(f)
json_load(text) == ParseValue(text, 1).val

\* entries with integer id, three color channels and two positions
JsonEntries ==
    [id : {0, 10},
     color : {<<0, 0, 0>>, <<255, 12, 0>>},
     src_pos : {<<0, 0>>, <<-1, 12>>},
     dst_pos : {<<0, 0>>, <<-1, 12>>}]

JsonMappings == UNION {[1..n -> JsonEntries] : n \in 0..MaxEntries}

InitJson ==
    /\ pc = "mapping"
    /\ mapping \in JsonMappings
    /\ source_small = <<>>
    /\ target_small = <<>>
    /\ seed = MIN_SEED
    /\ rng = 0
    /\ source_pixels = <<>>
    /\ target_pixels = <<>>
    /\ source_luminance = <<>>
    /\ target_luminance = <<>>
    /\ first_mapping = <<>>
    /\ small_img = <<>>
    /\ disturbed = FALSE
    /\ worker = <<>>
    /\ IdleRender
    /\ IdleAnimation
    /\ IdleStorage
    /\ IdleKdtree
    /\ IdleWeb

\* save_mapping(mapping, path)
SaveMapping ==
    /\ pc = "mapping"
    /\ mapping_file' = json_dump(mapping)
    /\ pc' = "saved"
    /\ UNCHANGED <<source_small, target_small, seed, rng, source_pixels,
                   target_pixels, source_luminance, target_luminance,
                   mapping, first_mapping, small_img, disturbed, worker,
                   render, animation, loaded, kdtree, web>>

\* load_mapping(path)
LoadMapping ==
    /\ pc = "saved"
    /\ loaded' = json_load(mapping_file)
    /\ pc' = "loaded"
    /\ UNCHANGED <<source_small, target_small, seed, rng, source_pixels,
                   target_pixels, source_luminance, target_luminance,
                   mapping, first_mapping, small_img, disturbed, worker,
                   render, animation, mapping_file, kdtree, web>>

NextJson ==
    \/ SaveMapping
    \/ LoadMapping

SpecJson == InitJson /\ [][NextJson]_vars

EntryKeys == {"id", "color", "src_pos", "dst_pos"}

\* C19: load_mapping(save_mapping(m)) is a sequence equal to m: the same
\* length, the same entries in the same order, each with the same keys and
\* the same integer values.
C19_MappingRoundTrip ==
    (pc = "loaded") =>
        /\ Len(loaded) = Len(mapping)
        /\ \A k \in 1..Len(mapping) :
              /\ DOMAIN loaded[k] = EntryKeys
              /\ loaded[k].id \in Int
              /\ loaded[k].id = mapping[k].id
              /\ loaded[k].color = mapping[k].color
              /\ loaded[k].src_pos = mapping[k].src_pos
              /\ loaded[k].dst_pos = mapping[k].dst_pos
        /\ loaded = mapping

\* a loaded mapping of two different entries, with a negative coordinate, a
\* zero and numbers of two and three digits
C19_Witness ==
    /\ pc = "loaded"
    /\ Len(mapping) = 2
    /\ mapping[1] # mapping[2]
    /\ mapping[1].src_pos = <<-1, 12>>
    /\ mapping[1].color = <<255, 12, 0>>
    /\ mapping[2].id = 10
    /\ Len(mapping_file) > Len(mapping)

\* C21: for the same mapping, working shape and scale, the raster of
\* create_final_image is the frame the animation compositor produces at
\* t = 1: the last generated frame and every hold frame of create_animation.
C21_FinalImageIsFrameAtOne ==
    /\ \A i \in 1..Len(times) :
          (times[i][1] = times[i][2]) => frames[i] = final_image
    /\ (pc \in {"encode", "done"}) =>
          \A k \in num_frames..Len(frames) : frames[k] = final_image

\* an encoded animation magnified by 2 whose first frame differs from the
\* final image and whose hold frames follow three generated frames
C21_Witness ==
    /\ pc = "done"
    /\ scale = 2
    /\ num_frames = 3
    /\ Len(frames) > num_frames
    /\ frames[1] # final_image
    /\ Len(final_image[1]) = 2 * Len(source_small[1])

----------------------------------------------------------------------------
(* create_assignment on rows of pixels whose luminances are equal or differ *)
(* by the smallest amount two integer colors can differ by, 0.001.          *)

\* luminance 5.016, luminance 5.016 and luminance 5.017
Navy == <<0, 0, 44>>
Moss == <<11, 1, 10>>
Olive == <<5, 6, 0>>
NearPalette == {Navy, Moss, Olive}

\* rows of at most WorkerPixels + 1 pixels
NearRasters ==
    UNION {RastersOf(<<1, n>>, NearPalette) : n \in 1..(WorkerPixels + 1)}

InitNoise ==
    /\ pc = "start"
    /\ source_small \in NearRasters
    /\ target_small \in NearRasters
    /\ seed \in Seeds
    /\ rng = 0
    /\ source_pixels = <<>>
    /\ target_pixels = <<>>
    /\ source_luminance = <<>>
    /\ target_luminance = <<>>
    /\ mapping = <<>>
    /\ first_mapping = <<>>
    /\ small_img = <<>>
    /\ disturbed = FALSE
    /\ worker = <<>>
    /\ IdleRender
    /\ IdleAnimation
    /\ IdleStorage
    /\ IdleKdtree
    /\ IdleWeb

NextNoise ==
    \/ ExtractPixels
    \/ CreateAssignment

SpecNoise == InitNoise /\ [][NextNoise]_vars

\* the position, counted from 1, that np.argsort(keys) gives the element
\* with Python index i - 1
PositionOf(keys, i) == CHOOSE k \in 1..Len(keys) : argsort(keys)[k] = i - 1

\* in a pool ranked by the perturbed luminances keys, a pixel of smaller
\* unperturbed luminance is ranked before a pixel of larger one
RankedByLuminance(pool, keys) ==
    \A i, j \in 1..Len(pool) :
        (299 * pool[i].color[1] + 587 * pool[i].color[2] + 114 * pool[i].color[3]
           < 299 * pool[j].color[1] + 587 * pool[j].color[2] + 114 * pool[j].color[3])
        => PositionOf(keys, i) < PositionOf(keys, j)

\* C23: the tie-breaking noise never changes the relative order of two
\* pixels of one pool whose unperturbed luminances 0.299R+0.587G+0.114B
\* differ: the pixel of smaller luminance is ranked first for every seed.
C23_NoiseKeepsLuminanceOrder ==
    Called =>
        /\ RankedByLuminance(source_pixels, source_luminance)
        /\ RankedByLuminance(target_pixels, target_luminance)

\* a source pool in which the noise has ranked a pixel before an earlier
\* pixel of the same luminance, and in which a pixel is ranked after a
\* later pixel whose luminance is smaller by 0.001
C23_Witness ==
    /\ pc = "assigned"
    /\ Len(source_pixels) = 3
    /\ \E i, j \in 1..3 :
          /\ i < j
          /\ calculate_luminance(source_pixels[i].color)
                = calculate_luminance(source_pixels[j].color)
          /\ PositionOf(source_luminance, j) < PositionOf(source_luminance, i)
    /\ \E i, j \in 1..3 :
          /\ i < j
          /\ calculate_luminance(source_pixels[i].color)
                = calculate_luminance(source_pixels[j].color) + 1
          /\ PositionOf(source_luminance, j) < PositionOf(source_luminance, i)

----------------------------------------------------------------------------
(* create_kdtree_assignment (assign.py) *)

SetMax(S) == CHOOSE m \in S : \A x \in S : x <= m

\* size = int(round((size_x + size_y) / 2)) with the largest source x and y
GridSize(src_pixels) ==
    LET size_x == SetMax({src_pixels[i].src_pos[1] : i \in DOMAIN src_pixels}) + 1
        size_y == SetMax({src_pixels[i].src_pos[2] : i \in DOMAIN src_pixels}) + 1
    IN  np_round(size_x + size_y, 2)

\* the squared distance of the features [x/size, y/size, luminance] of two
\* pixels, multiplied by size^2 * 10^6 (the luminance is in units of 1/1000)
FeatureDistance(p, q, size) ==
    LET dx == p.src_pos[1] - q.src_pos[1]
        dy == p.src_pos[2] - q.src_pos[2]
        dl == calculate_luminance(p.color) - calculate_luminance(q.color)
    IN  (dx * dx + dy * dy) * 1000000 + dl * dl * size * size

\* the results tree.query may give for one source pixel: the Python index
\* of a target pixel at the least distance (among equally near ones the
\* tree's choice is not specified)
NearestTargets(p, tgt_pixels, size) ==
    {j - 1 : j \in {k \in DOMAIN tgt_pixels :
                     \A n \in DOMAIN tgt_pixels :
                         FeatureDistance(p, tgt_pixels[k], size)
                            <= FeatureDistance(p, tgt_pixels[n], size)}}

\* the arrays tree.query(source_features, k=1) may return for the first k
\* source pixels
RECURSIVE QueryResults(_, _, _, _)
QueryResults(src_pixels, tgt_pixels, size, k) ==
    IF k = 0 THEN {<<>>}
    ELSE {Append(idxs, j) :
            idxs \in QueryResults(src_pixels, tgt_pixels, size, k - 1),
            j \in NearestTargets(src_pixels[k], tgt_pixels, size)}

\* while tgt_idx in used_indices and tgt_idx < len(target_pixels) - 1:
\*     tgt_idx += 1
RECURSIVE Probe(_, _, _)
Probe(tgt_idx, used_indices, n) ==
    IF tgt_idx \in used_indices /\ tgt_idx < n - 1
    THEN Probe(tgt_idx + 1, used_indices, n)
    ELSE tgt_idx

\* the loop over enumerate(indices), from source index src_idx (from 1) on
RECURSIVE GreedyLoop(_, _, _, _, _, _)
GreedyLoop(src_pixels, tgt_pixels, idxs, src_idx, used_indices, acc) ==
    IF src_idx > Len(idxs) THEN acc
    ELSE LET tgt_idx == Probe(idxs[src_idx], used_indices, Len(tgt_pixels))
         IN  GreedyLoop(src_pixels, tgt_pixels, idxs, src_idx + 1,
                        used_indices \cup {tgt_idx},
                        Append(acc, MappingEntry(src_pixels[src_idx],
                                                 tgt_pixels[tgt_idx + 1])))

\* a color of luminance 1.026
Dusk == <<0, 0, 9>>

\* the rasters handed to create_kdtree_assignment: rows and squares of
\* black and nearly black pixels
KdRasters == UNION {RastersOf(s, {Black, Dusk}) : s \in PipelineShapes}

InitKd ==
    /\ pc = "start"
    /\ source_small \in KdRasters
    /\ target_small \in KdRasters
    /\ seed \in Seeds
    /\ rng = 0
    /\ source_pixels = <<>>
    /\ target_pixels = <<>>
    /\ source_luminance = <<>>
    /\ target_luminance = <<>>
    /\ mapping = <<>>
    /\ first_mapping = <<>>
    /\ small_img = <<>>
    /\ disturbed = FALSE
    /\ worker = <<>>
    /\ IdleRender
    /\ IdleAnimation
    /\ IdleStorage
    /\ IdleKdtree
    /\ IdleWeb

\* np.random.seed(seed), the feature vectors and tree.query
KdQuery ==
    /\ pc = "extracted"
    /\ rng' = SeedGenerator(rng, seed)
    /\ indices' \in QueryResults(source_pixels, target_pixels,
                                  GridSize(source_pixels), Len(source_pixels))
    /\ pc' = "queried"
    /\ UNCHANGED <<source_small, target_small, seed, source_pixels,
                   target_pixels, source_luminance, target_luminance,
                   mapping, first_mapping, small_img, disturbed, worker,
                   render, animation, storage, web>>

\* the greedy assignment loop and the return
KdAssign ==
    /\ pc = "queried"
    /\ mapping' = GreedyLoop(source_pixels, target_pixels, indices, 1, {}, <<>>)
    /\ pc' = "kd_assigned"
    /\ UNCHANGED <<source_small, target_small, seed, rng, source_pixels,
                   target_pixels, source_luminance, target_luminance,
                   first_mapping, small_img, disturbed, worker, render,
                   animation, storage, kdtree, web>>

NextKd ==
    \/ ExtractPixels
    \/ KdQuery
    \/ KdAssign

SpecKd == InitKd /\ [][NextKd]_vars

\* C24: with len(source) <= len(target), probing ends at a target index no
\* earlier source pixel was assigned, so no two entries of the mapping of
\* create_kdtree_assignment share a target pixel.
C24_KdTargetsDistinct ==
    (pc = "kd_assigned" /\ Len(source_pixels) <= Len(target_pixels)) =>
        \A j, k \in DOMAIN mapping :
            j # k => mapping[j].dst_pos # mapping[k].dst_pos

\* what the loop does guarantee: a target index below the last one is
\* assigned to at most one source pixel
KdOnlyLastTargetShared ==
    (pc = "kd_assigned") =>
        \A j, k \in DOMAIN mapping :
            (j # k /\ mapping[j].dst_pos = mapping[k].dst_pos) =>
                mapping[j].dst_pos = target_pixels[Len(target_pixels)].src_pos

\* C25: for a mapping whose positions lie inside the W x H grid and every
\* t = i/(n-1), each component of round(src + (dst - src) * t) lies between
\* the components of src_pos and dst_pos, hence inside the grid, and the
\* compositor's clipping does not change it.
C25_RoundedPositionsInside ==
    FrameComposed =>
        \A k \in DOMAIN mapping :
            LET p == positions(mapping[k], frame_t)
                src == mapping[k].src_pos
                dst == mapping[k].dst_pos
            IN  /\ \A c \in 1..2 :
                      /\ Min(src[c], dst[c]) <= p[c]
                      /\ p[c] <= Max(src[c], dst[c])
                /\ p[1] >= 0 /\ p[1] < Len(source_small[1])
                /\ p[2] >= 0 /\ p[2] < Len(source_small)
                /\ clip(p[1], 0, Len(source_small[1]) - 1) = p[1]
                /\ clip(p[2], 0, Len(source_small) - 1) = p[2]
                /\ small_img[p[2] + 1][p[1] + 1] \in
                      {mapping[j].color : j \in DOMAIN mapping}

\* a frame at t = 1/2 in which one entry is strictly between its two
\* positions and another one, an odd distance apart, is at a position
\* rounded from a half
C25_Witness ==
    /\ FrameComposed
    /\ frame_t = <<1, 2>>
    /\ \E k \in DOMAIN mapping :
          LET p == positions(mapping[k], frame_t)
          IN  /\ Min(mapping[k].src_pos[1], mapping[k].dst_pos[1]) < p[1]
              /\ p[1] < Max(mapping[k].src_pos[1], mapping[k].dst_pos[1])
    /\ \E k \in DOMAIN mapping :
          (mapping[k].dst_pos[1] - mapping[k].src_pos[1]) % 2 = 1

-----------------------------------------------------------------------------
\* The web layer (app.py): the registries processing_status and results,
\* the upload folder, the request handlers and the worker thread of each
\* task.  A handler runs as one step, except cleanup_task, whose two
\* deletions are separate steps; a worker runs one stage per step.

\* config.py: the limits and the defaults of the parameters; durations
\* are whole numbers of 1/DurationUnit seconds
MIN_SIZE == 32
MAX_SIZE == 512
MIN_FPS == 1
MAX_FPS == 120
MIN_DURATION == 1
MAX_DURATION == 100
MIN_SCALE == 1
MAX_SCALE == 16
MAX_SEED == 999999
ALLOWED_FORMATS == {"mp4", "gif"}
DEFAULT_SIZE == 128
DEFAULT_FPS == 30
DEFAULT_DURATION == 40
DEFAULT_SCALE == 8
DEFAULT_FORMAT == "mp4"

ALLOWED_EXTENSIONS == {"png", "jpg", "jpeg", "gif", "bmp"}

\* the task ids upload_files generates; os.urandom makes them distinct
Tasks == {"task_0_a", "task_1_b"}

\* a dictionary without the key k, and with the key k bound to v
Del(d, k) == [x \in (DOMAIN d) \ {k} |-> d[x]]
Put(d, k, v) == [x \in (DOMAIN d) \cup {k} |-> IF x = k THEN v ELSE d[x]]
EmptyDict == [x \in {} |-> 0]

\* an uploaded file name: a directory part, a stem and an extension ("" when
\* the name has no dot)
FileName(dir, stem, ext) == [dir |-> dir, stem |-> stem, ext |-> ext]

\* '.' in filename and filename.rsplit('.', 1)[1].lower() in ALLOWED_EXTENSIONS
allowed_file(filename) == filename.ext \in ALLOWED_EXTENSIONS

\* werkzeug's secure_filename: the directory part is dropped
secure_filename(filename) == filename.stem \o "." \o filename.ext

\* request.files of the upload requests
UploadFiles ==
    { [source |-> FileName("", "a", "png"), target |-> FileName("", "b", "png")],
      [source |-> FileName("../", "a", "png"), target |-> FileName("", "c", "png")],
      [source |-> FileName("", "a", "txt"), target |-> FileName("", "b", "png")],
      [source |-> FileName("", "", ""), target |-> FileName("", "b", "png")],
      [source |-> FileName("", "a", "png")] }

\* the paths uploaded files are saved under
UploadPaths == {"a.png", "b.png", "c.png"}

\* a form field: absent, a number, a text, or a text int() cannot parse
Absent == [kind |-> "absent"]
Field(v) == [kind |-> "value", value |-> v]
Malformed == [kind |-> "malformed"]

\* request.form of the upload requests: no field, every number outside its
\* range, a format outside ALLOWED_FORMATS, a size that is not a number
NoFields ==
    [size |-> Absent, fps |-> Absent, duration |-> Absent, seed |-> Absent,
     scale |-> Absent, format |-> Absent]
Forms ==
    { NoFields,
      [size |-> Field(MAX_SIZE + 1), fps |-> Field(MIN_FPS - 1),
       duration |-> Field(MIN_DURATION - 1), seed |-> Field(MIN_SEED - 1),
       scale |-> Field(MAX_SCALE + 1), format |-> Field("gif")],
      [NoFields EXCEPT !.format = Field("avi")],
      [NoFields EXCEPT !.size = Malformed] }

\* request.form.get(key, default)
form_get(form, key, default) ==
    IF form[key].kind = "absent" THEN Field(default) ELSE form[key]

\* the fields int() or float() raises ValueError on
Unparsable(form) ==
    \E key \in {"size", "fps", "duration", "seed", "scale"} :
        form[key].kind = "malformed"

\* the params dictionary of upload_files
params_of(form) ==
    [size |-> form_get(form, "size", DEFAULT_SIZE).value,
     fps |-> form_get(form, "fps", DEFAULT_FPS).value,
     duration |-> form_get(form, "duration", DEFAULT_DURATION).value,
     seed |-> form_get(form, "seed", DEFAULT_SEED).value,
     scale |-> form_get(form, "scale", DEFAULT_SCALE).value,
     format |-> form_get(form, "format", DEFAULT_FORMAT).value]

\* the checks of run_mvp.main: the five ranges and argparse's choices
validate_args(args) ==
    /\ MIN_SIZE <= args.size /\ args.size <= MAX_SIZE
    /\ MIN_FPS <= args.fps /\ args.fps <= MAX_FPS
    /\ MIN_DURATION <= args.duration /\ args.duration <= MAX_DURATION
    /\ MIN_SCALE <= args.scale /\ args.scale <= MAX_SCALE
    /\ MIN_SEED <= args.seed /\ args.seed <= MAX_SEED
    /\ args.format \in ALLOWED_FORMATS

\* a task no upload has started yet
IdleTask ==
    [pc |-> "idle", params |-> <<>>, source_path |-> "", target_path |-> "",
     source_img |-> <<>>, target_img |-> <<>>, output_dir |-> "none",
     cleaning |-> FALSE]

\* the image a request uploads in its field
Image(request, field) == <<request, field>>

InitWeb ==
    /\ pc = "web"
    /\ source_small = <<>>
    /\ target_small = <<>>
    /\ seed = MIN_SEED
    /\ rng = 0
    /\ source_pixels = <<>>
    /\ target_pixels = <<>>
    /\ source_luminance = <<>>
    /\ target_luminance = <<>>
    /\ mapping = <<>>
    /\ first_mapping = <<>>
    /\ small_img = <<>>
    /\ disturbed = FALSE
    /\ worker = <<>>
    /\ IdleRender
    /\ IdleAnimation
    /\ IdleStorage
    /\ IdleKdtree
    /\ processing_status = EmptyDict
    /\ results = EmptyDict
    /\ uploads = [path \in UploadPaths |-> <<>>]
    /\ task = [t \in Tasks |-> IdleTask]
    /\ cleaned = {}
    /\ response = [kind |-> "none"]

WebFixed ==
    UNCHANGED <<pipeline, rng, disturbed, worker, render, animation, storage,
                kdtree>>

\* upload_files: the request with the files and the form, answered with the
\* fresh task id t when the worker thread has been started
Upload(t, files, form) ==
    /\ task[t].pc = "idle"
    /\ IF ~ ({"source", "target"} \subseteq DOMAIN files)
       THEN /\ response' = [kind |-> "upload", code |-> 400]
            /\ UNCHANGED <<uploads, task>>
       ELSE IF files.source = FileName("", "", "") \/ files.target = FileName("", "", "")
       THEN /\ response' = [kind |-> "upload", code |-> 400]
            /\ UNCHANGED <<uploads, task>>
       ELSE IF ~ (allowed_file(files.source) /\ allowed_file(files.target))
       THEN /\ response' = [kind |-> "upload", code |-> 400]
            /\ UNCHANGED <<uploads, task>>
       ELSE LET source_path == secure_filename(files.source)
                target_path == secure_filename(files.target)
                request == IF Unparsable(form) THEN "failed" ELSE t
                saved == [[uploads EXCEPT ![source_path] = Image(request, "source")]
                             EXCEPT ![target_path] = Image(request, "target")]
            IN  /\ uploads' = saved
                /\ IF Unparsable(form)
                   THEN /\ response' = [kind |-> "upload", code |-> 500]
                        /\ UNCHANGED task
                   ELSE /\ task' = [task EXCEPT ![t] =
                                [IdleTask EXCEPT !.pc = "l58",
                                                 !.params = params_of(form),
                                                 !.source_path = source_path,
                                                 !.target_path = target_path]]
                        /\ response' = [kind |-> "upload", code |-> 200,
                                        task_id |-> t]
    /\ UNCHANGED <<processing_status, results, cleaned>>
    /\ WebFixed

\* process_images_task, line 58: the worker creates the status entry
TaskBegin(t) ==
    /\ task[t].pc = "l58"
    /\ processing_status' =
           Put(processing_status, t, [status |-> "processing", progress |-> 0])
    /\ task' = [task EXCEPT ![t].pc = "l78"]
    /\ UNCHANGED <<results, uploads, cleaned, response>>
    /\ WebFixed

\* one stage of the worker: processing_status[task_id]['progress'] = progress
\* (KeyError when the entry is gone), then the stage's call, which returns
\* (done is the task afterwards) or raises
Stage(t, at, progress, done) ==
    /\ task[t].pc = at
    /\ IF t \in DOMAIN processing_status
       THEN /\ processing_status' =
                   [processing_status EXCEPT ![t].progress = progress]
            /\ \E raised \in BOOLEAN :
                   task' = [task EXCEPT ![t] =
                               IF raised THEN [task[t] EXCEPT !.pc = "except"]
                               ELSE done]
       ELSE /\ task' = [task EXCEPT ![t].pc = "except"]
            /\ UNCHANGED processing_status
    /\ UNCHANGED <<results, uploads, cleaned, response>>
    /\ WebFixed

\* 1. preprocess_images(source_path, target_path, size) loads both files
TaskPreprocess(t) ==
    Stage(t, "l78", 10,
          [task[t] EXCEPT !.pc = "l85",
                          !.source_img = uploads[task[t].source_path],
                          !.target_img = uploads[task[t].target_path]])

\* 2. extract_pixels of both rasters
TaskExtract(t) == Stage(t, "l85", 30, [task[t] EXCEPT !.pc = "l93"])

\* 3. create_assignment, 4. tempfile.mkdtemp
TaskAssign(t) ==
    Stage(t, "l93", 50,
          [task[t] EXCEPT !.pc = "l105", !.output_dir = "created"])

\* 5. create_final_image
TaskFinalImage(t) == Stage(t, "l105", 60, [task[t] EXCEPT !.pc = "l117"])

\* 6. create_animation
TaskAnimation(t) == Stage(t, "l117", 80, [task[t] EXCEPT !.pc = "l135"])

\* 7. create_diagnostic, 8. save_mapping
TaskDiagnostic(t) == Stage(t, "l135", 90, [task[t] EXCEPT !.pc = "l150"])

\* mutant: the worker goes on without an entry in results
StoreResults_skipped(t) ==
    /\ task[t].pc = "l150"
    /\ task' = [task EXCEPT ![t].pc = "l160"]
    /\ UNCHANGED <<processing_status, results, uploads, cleaned, response>>
    /\ WebFixed

\* results[task_id] = {'status': 'completed', ...}
StoreResults(t) ==
    /\ task[t].pc = "l150"
    /\ results' = Put(results, t, [status |-> "completed",
                                   output_dir |-> task[t].output_dir])
    /\ task' = [task EXCEPT ![t].pc = "l160"]
    /\ UNCHANGED <<processing_status, uploads, cleaned, response>>
    /\ WebFixed

\* mutant: a completed status that keeps the progress of the last stage
completed_status_partial == [status |-> "completed", progress |-> 90]

\* the status entry of a completed task
completed_status == [status |-> "completed", progress |-> 100]

\* processing_status[task_id] = {'status': 'completed', 'progress': 100,
\* 'logs': processing_status[task_id]['logs'], ...}
Complete(t) ==
    /\ task[t].pc = "l160"
    /\ IF t \in DOMAIN processing_status
       THEN /\ processing_status' =
                   [processing_status EXCEPT ![t] = completed_status]
            /\ task' = [task EXCEPT ![t].pc = "completed"]
       ELSE /\ task' = [task EXCEPT ![t].pc = "except"]
            /\ UNCHANGED processing_status
    /\ UNCHANGED <<results, uploads, cleaned, response>>
    /\ WebFixed

\* the inner except: the status entry becomes the error entry, built from
\* the logs of the present entry; without an entry the KeyError reaches the
\* outer except, which only prints
Fail(t) ==
    /\ task[t].pc = "except"
    /\ IF t \in DOMAIN processing_status
       THEN /\ processing_status' =
                   [processing_status EXCEPT ![t] =
                       [status |-> "error", error |-> "raised"]]
            /\ task' = [task EXCEPT ![t].pc = "error"]
       ELSE /\ task' = [task EXCEPT ![t].pc = "fatal"]
            /\ UNCHANGED processing_status
    /\ UNCHANGED <<results, uploads, cleaned, response>>
    /\ WebFixed

\* cleanup_task, first part: no uploaded file has the task id in its name;
\* the output directory of a task in results is removed and the task is
\* deleted from results
CleanupResults(t) ==
    /\ task[t].pc # "idle"
    /\ ~ task[t].cleaning
    /\ task' = [task EXCEPT
                   ![t].cleaning = TRUE,
                   ![t].output_dir =
                       IF t \in DOMAIN results /\ results[t].output_dir = "created"
                       THEN "removed" ELSE @]
    /\ results' = Del(results, t)
    /\ UNCHANGED <<processing_status, uploads, cleaned, response>>
    /\ WebFixed

\* cleanup_task, second part: the task is deleted from processing_status
\* and the request is answered
CleanupStatus(t) ==
    /\ task[t].cleaning
    /\ task' = [task EXCEPT ![t].cleaning = FALSE]
    /\ processing_status' = Del(processing_status, t)
    /\ cleaned' = cleaned \cup {t}
    /\ response' = [kind |-> "cleanup", task_id |-> t]
    /\ UNCHANGED <<results, uploads>>
    /\ WebFixed

\* get_status: processing_status.get(task_id, {'status': 'unknown'})
GetStatus(t) ==
    /\ task[t].pc # "idle"
    /\ response' =
           [kind |-> "status", task_id |-> t,
            body |-> IF t \in DOMAIN processing_status
                     THEN processing_status[t]
                     ELSE [status |-> "unknown"]]
    /\ UNCHANGED <<processing_status, results, uploads, task, cleaned>>
    /\ WebFixed

\* get_result: 404 'Result not found' unless the task is in results
GetResult(t) ==
    /\ task[t].pc # "idle"
    /\ response' =
           [kind |-> "result", task_id |-> t,
            code |-> IF t \in DOMAIN results THEN 200 ELSE 404]
    /\ UNCHANGED <<processing_status, results, uploads, task, cleaned>>
    /\ WebFixed

\* the steps of the worker thread of task t
WorkerStep(t) ==
    \/ TaskBegin(t)
    \/ TaskPreprocess(t)
    \/ TaskExtract(t)
    \/ TaskAssign(t)
    \/ TaskFinalImage(t)
    \/ TaskAnimation(t)
    \/ TaskDiagnostic(t)
    \/ StoreResults(t)
    \/ Complete(t)
    \/ Fail(t)

\* the requests of the clients that use the default form
DefaultFiles ==
    { [source |-> FileName("", "a", "png"), target |-> FileName("", "b", "png")],
      [source |-> FileName("", "a", "png")] }

\* uploads of every kind and the workers they start
NextUpload ==
    \E t \in Tasks :
        \/ \E files \in UploadFiles, form \in Forms : Upload(t, files, form)
        \/ WorkerStep(t)

SpecUpload == InitWeb /\ [][NextUpload]_vars

\* uploads, workers, cleanup requests and the status and result requests
NextWeb ==
    \E t \in Tasks :
        \/ \E files \in DefaultFiles : Upload(t, files, NoFields)
        \/ WorkerStep(t)
        \/ CleanupResults(t)
        \/ CleanupStatus(t)
        \/ GetStatus(t)
        \/ GetResult(t)

SpecWeb == InitWeb /\ [][NextWeb]_vars

\* uploads, workers and cleanup requests; a started worker thread keeps
\* running: each of its steps is taken when it stays possible
NextWork ==
    \E t \in Tasks :
        \/ \E files \in DefaultFiles : Upload(t, files, NoFields)
        \/ WorkerStep(t)
        \/ CleanupResults(t)
        \/ CleanupStatus(t)

SpecWork ==
    /\ InitWeb
    /\ [][NextWork]_vars
    /\ \A t \in Tasks : WF_vars(WorkerStep(t))
-----------------------------------------------------------------------------
\* Properties of the web layer

\* the task has a status entry with this status
HasStatus(t, status) ==
    t \in DOMAIN processing_status /\ processing_status[t].status = status

\* a cleanup request for the task has been received
CleanupRequested(t) == t \in cleaned \/ task[t].cleaning

\* C22: a request with a value outside the limits of config.py, or a format
\* outside ALLOWED_FORMATS, starts no processing task.
C22_StartedTasksWithinLimits ==
    \A t \in Tasks : task[t].pc # "idle" => validate_args(task[t].params)

\* C30: each task loads the source and target images uploaded in its own
\* upload request.
C30_TaskLoadsOwnUploads ==
    \A t \in Tasks :
        task[t].source_img # <<>> =>
            /\ task[t].source_img = Image(t, "source")
            /\ task[t].target_img = Image(t, "target")

\* C26: once a cleanup request for a task has completed, the task is absent
\* from processing_status and from results, and stays absent.
C26_CleanedTaskStaysAbsent ==
    \A t \in cleaned :
        t \notin DOMAIN processing_status /\ t \notin DOMAIN results

\* C27: after /upload has answered with a task id, every /status answer for
\* that id is other than 'unknown' until the task is cleaned up.
C27_StatusKnownAfterUpload ==
    (response.kind = "status" /\ response.task_id \notin cleaned) =>
        response.body.status # "unknown"

\* a task with the status 'completed' is in results; a task with the
\* status 'error' is not
CompletedHasResults ==
    \A t \in Tasks :
        ~ CleanupRequested(t) =>
            /\ HasStatus(t, "completed") => t \in DOMAIN results
            /\ HasStatus(t, "error") => t \notin DOMAIN results

\* a /result request for a task whose status is 'completed' finds the result
ResultFoundWhenCompleted ==
    \A t \in Tasks :
        (GetResult(t) /\ HasStatus(t, "completed") /\ ~ CleanupRequested(t)) =>
            response'.code = 200

\* C28: while a task is not cleaned up, the status 'completed' implies an
\* entry in results, so a /result request made then does not answer
\* 'Result not found'; the status 'error' implies no entry in results.
C28_ResultsBeforeCompleted ==
    /\ []CompletedHasResults
    /\ [][ResultFoundWhenCompleted]_vars

\* a /result request answered with the file of a completed task that is
\* not cleaned up
C28_Witness ==
    /\ response.kind = "result"
    /\ response.code = 200
    /\ HasStatus(response.task_id, "completed")
    /\ ~ CleanupRequested(response.task_id)
    /\ \E t \in Tasks : HasStatus(t, "error") /\ ~ CleanupRequested(t)

\* the progress values of the stages, in the order of the stages
ProgressValues == <<0, 10, 30, 50, 60, 80, 90>>

\* the status is 'completed' or 'error'
Finished(t) == HasStatus(t, "completed") \/ HasStatus(t, "error")

\* a finished task that is not cleaned up keeps its status entry
FinishedStatusIsFinal ==
    \A t \in Tasks :
        (Finished(t) /\ ~ CleanupRequested(t)') =>
            /\ t \in DOMAIN processing_status'
            /\ processing_status'[t] = processing_status[t]

\* while the status is 'processing' the progress stays or moves to the next
\* value; the status becomes 'completed' from the progress 90 only
ProgressAdvances ==
    \A t \in Tasks :
        (HasStatus(t, "processing") /\ t \in DOMAIN processing_status') =>
            \/ processing_status'[t] = processing_status[t]
            \/ /\ HasStatus(t, "processing")'
               /\ \E i \in 1..(Len(ProgressValues) - 1) :
                     /\ processing_status[t].progress = ProgressValues[i]
                     /\ processing_status'[t].progress = ProgressValues[i + 1]
            \/ /\ HasStatus(t, "completed")'
               /\ processing_status[t].progress = ProgressValues[Len(ProgressValues)]
            \/ HasStatus(t, "error")'

\* the progress is 100 exactly in the status 'completed'
ProgressOfStatus ==
    \A t \in DOMAIN processing_status :
        /\ processing_status[t].status = "completed" =>
               processing_status[t].progress = 100
        /\ processing_status[t].status = "processing" =>
               \E i \in DOMAIN ProgressValues :
                   processing_status[t].progress = ProgressValues[i]

\* C29: every started worker whose task is not cleaned up eventually sets
\* the status to 'completed' or 'error', and the status does not change
\* afterwards; in the status 'processing' the progress goes through 0, 10,
\* 30, 50, 60, 80, 90 and is 100 exactly when the status is 'completed'.
C29_WorkerFinishes ==
    /\ \A t \in Tasks :
           (task[t].pc # "idle") ~> (Finished(t) \/ CleanupRequested(t))
    /\ [][FinishedStatusIsFinal]_vars
    /\ [][ProgressAdvances]_vars
    /\ []ProgressOfStatus

\* one task completed with the progress 100 and another one ended with an
\* error, neither cleaned up
C29_Witness ==
    \E t, u \in Tasks :
        /\ HasStatus(t, "completed")
        /\ processing_status[t].progress = 100
        /\ HasStatus(u, "error")
        /\ ~ CleanupRequested(t)
        /\ ~ CleanupRequested(u)

====
